---- MODULE Spec2Model ----
(***************************************************************************)
(* Model of the paginated-list client of go-readwisereader:                *)
(*   Client.List          the single-page fetcher (one HTTP request)       *)
(*   Client.ListPaginate  the iterator with rate-limit retry               *)
(* An int / int64 / time.Duration value is kept at its 64-bit width as a   *)
(* little-endian sequence of 8 bytes in two's complement.                  *)
(***************************************************************************)
EXTENDS Integers, Sequences, FiniteSets, TLC

(* ------------------------------ bounds -------------------------------- *)
\* the number of List calls one traversal may make in the model
MaxRequests == 3
\* the number of seconds the model's clock may advance during one wait
MaxTicks == 2
\* the number of List calls of each of two sessions run side by side
MaxRequestsTwo == 2

(* ------------------------- 64-bit arithmetic --------------------------- *)
\* one byte per digit, 64 bits per value
Base == 2 ^ 8
Width == 64 \div 8
\* time.Second = 1000 * 1000 * 1000 nanoseconds
SecondFactors == <<1000, 1000, 1000>>

RECURSIVE MulSmall(_, _, _)
\* m * k + carry on a little-endian magnitude of any length (k, carry small)
MulSmall(m, k, carry) ==
    IF m = <<>>
    THEN IF carry = 0 THEN <<>>
         ELSE <<carry % Base>> \o MulSmall(<<>>, k, carry \div Base)
    ELSE LET t == Head(m) * k + carry
         IN  <<t % Base>> \o MulSmall(Tail(m), k, t \div Base)

RECURSIVE Strip(_)
\* the magnitude without its most significant zero bytes
Strip(m) ==
    IF m = <<>> THEN <<>>
    ELSE IF m[Len(m)] = 0 THEN Strip(SubSeq(m, 1, Len(m) - 1))
    ELSE m

\* the low 64 bits of a magnitude, as exactly 8 bytes
Trunc64(m) == [i \in 1..Width |-> IF i <= Len(m) THEN m[i] ELSE 0]

\* two's complement negation of 8 bytes
Neg64(u) == Trunc64(MulSmall([i \in 1..Width |-> (Base - 1) - u[i]], 1, 1))

IsNeg64(u) == u[Width] >= Base \div 2

Zero64 == Trunc64(<<>>)

\* the int64 of a small natural number
Nat64(n) == Trunc64(MulSmall(<<>>, 1, n))

\* wrapping multiplication of an int64 by 10^9 (time.Second), as three
\* wrapping multiplications by 1000
MulSecond64(u) ==
    LET Mul(v, i) == Trunc64(MulSmall(v, SecondFactors[i], 0))
    IN  Mul(Mul(Mul(u, 1), 2), 3)

RECURSIVE LeqMag(_, _)
\* a <= b for two magnitudes of the same length
LeqMag(a, b) ==
    IF a = <<>> THEN TRUE
    ELSE IF a[Len(a)] # b[Len(b)] THEN a[Len(a)] < b[Len(b)]
    ELSE LeqMag(SubSeq(a, 1, Len(a) - 1), SubSeq(b, 1, Len(b) - 1))

\* signed a <= b on int64 values
Leq64(a, b) ==
    IF IsNeg64(a) # IsNeg64(b) THEN IsNeg64(a) ELSE LeqMag(a, b)

(* --------------------------- strconv.Atoi ------------------------------ *)
DigitChars == <<"0", "1", "2", "3", "4", "5", "6", "7", "8", "9">>
IsDigit(c) == \E i \in 1..Len(DigitChars) : DigitChars[i] = c
DigitVal(c) == (CHOOSE i \in 1..Len(DigitChars) : DigitChars[i] = c) - 1

RECURSIVE DigitsMag(_, _)
\* the magnitude of a digit string, most significant digit first
DigitsMag(ds, acc) ==
    IF ds = <<>> THEN acc
    ELSE DigitsMag(Tail(ds), MulSmall(acc, 10, DigitVal(Head(ds))))

\* whether sign and magnitude fit an int64
FitsInt64(neg, mag) ==
    \/ Len(mag) < Width
    \/ Len(mag) = Width /\ mag[Width] < Base \div 2
    \/ neg /\ mag = [i \in 1..Width |-> IF i = Width THEN Base \div 2 ELSE 0]

\* strconv.Atoi: an optional sign, one or more decimal digits, in int range
Atoi(s) ==
    LET signed == s # <<>> /\ Head(s) \in {"+", "-"}
        neg    == s # <<>> /\ Head(s) = "-"
        ds     == IF signed THEN Tail(s) ELSE s
        syntax == ds # <<>> /\ \A i \in 1..Len(ds) : IsDigit(ds[i])
        mag    == IF syntax THEN Strip(DigitsMag(ds, <<>>)) ELSE <<>>
    IN  IF ~syntax \/ ~FitsInt64(neg, mag)
        THEN [ok |-> FALSE, n |-> Zero64]
        ELSE [ok |-> TRUE,
              n  |-> IF neg THEN Neg64(Trunc64(mag)) ELSE Trunc64(mag)]

(* ------------------------------ data ----------------------------------- *)
StatusOK == 200
StatusTooManyRequests == 429

\* page cursors the server hands out; "" is the "no more pages" sentinel
Cursors == {"a", "b"}
NoCursor == ""

\* Retry-After header values a 429 response may carry, as character
\* sequences; <<>> is the value Header.Get gives for a missing header
RetryHeaders ==
    { <<>>,
      <<"a", "b", "c">>,
      <<"0">>,
      <<"2">>,
      <<"-", "1">>,
      <<"9", "2", "2", "3", "3", "7", "2", "0", "3", "7">>,
      <<"9", "2", "2", "3", "3", "7", "2", "0", "3", "6",
        "8", "5", "4", "7", "7", "5", "8", "0", "8">> }

\* statuses other than 200 and 429 the server may answer with
OtherStatuses == {204, 500}

\* documents as they appear in a response body (type document)
RawDocs == { [id |-> "d1", title |-> "t1"] }

\* a response body: decodable JSON of a listResponse, or not
NoBody == [json |-> FALSE, count |-> 0, next |-> NoCursor, results |-> <<>>]
Bodies ==
    { [json |-> TRUE, count |-> c, next |-> n, results |-> rs] :
        c \in {3}, n \in Cursors \cup {NoCursor},
        rs \in { <<d>> : d \in RawDocs } }
    \cup { [json |-> TRUE, count |-> 0, next |-> n, results |-> <<>>] :
             n \in Cursors \cup {NoCursor} }
    \cup { NoBody }

\* what c.client.Do and io.ReadAll hand back to list: tr = "ok" is a
\* response, "do" a failed Do, "readall" a failed body read
HttpResponse(status, header, body) ==
    [tr |-> "ok", cause |-> "", status |-> status, retryAfter |-> header,
     body |-> body]
HttpFailure(tr, cause) ==
    [tr |-> tr, cause |-> cause, status |-> 0, retryAfter |-> <<>>,
     body |-> NoBody]

ServerResponses ==
    { HttpResponse(StatusOK, <<>>, b) : b \in Bodies }
    \cup { HttpResponse(StatusTooManyRequests, h, NoBody) : h \in RetryHeaders }
    \cup { HttpResponse(c, <<>>, NoBody) : c \in OtherStatuses }
NetFailures == { HttpFailure(tr, "net") : tr \in {"do", "readall"} }

\* a server that knows two pages, one rate-limit answer and one failure
FewResponses ==
    { HttpResponse(StatusOK, <<>>,
                   [json |-> TRUE, count |-> 3, next |-> "b",
                    results |-> << [id |-> "d1", title |-> "t1"] >>]),
      HttpResponse(StatusOK, <<>>,
                   [json |-> TRUE, count |-> 0, next |-> NoCursor,
                    results |-> <<>>]),
      HttpResponse(StatusTooManyRequests, <<"2">>, NoBody),
      HttpResponse(500, <<>>, NoBody) }

\* a server with a page of two documents and a last page of one, a
\* rate-limit answer, a failure, and a network that may fail
TwoDocResponses ==
    { HttpResponse(StatusOK, <<>>,
                   [json |-> TRUE, count |-> 3, next |-> "b",
                    results |-> << [id |-> "d1", title |-> "t1"],
                                   [id |-> "d2", title |-> "t2"] >>]),
      HttpResponse(StatusOK, <<>>,
                   [json |-> TRUE, count |-> 3, next |-> NoCursor,
                    results |-> << [id |-> "d3", title |-> "t3"] >>]),
      HttpResponse(StatusTooManyRequests, <<"2">>, NoBody),
      HttpResponse(500, <<>>, NoBody),
      HttpFailure("do", "net") }

\* the answers a session may get when its context is not cancelled
Responses(env) ==
    IF env = "few" THEN FewResponses
    ELSE IF env = "twodoc" THEN TwoDocResponses
    ELSE ServerResponses \cup NetFailures
CtxFailures == { HttpFailure(tr, "ctx") : tr \in {"do", "readall"} }

\* type Page and its zero value Page{}
MkPage(count, results) == [Count |-> count, Results |-> results]
ZeroPage == MkPage(0, <<>>)

\* error values; kind "nil" is the nil error
MkErr(kind, cause, code, raw, d) ==
    [kind |-> kind, cause |-> cause, code |-> code, raw |-> raw,
     RetryAfter |-> d]
NilErr == MkErr("nil", "", 0, <<>>, Zero64)
\* ctx.Err() of a cancelled context
CtxErr == MkErr("ctx", "ctx", 0, <<>>, Zero64)
\* type ErrorRateLimited
ErrorRateLimited(d) == MkErr("ratelimited", "", 0, <<>>, d)

\* the caller's ListParams values
CallerParams ==
    { [ID |-> "", UpdatedAfter |-> 0, Location |-> loc, Category |-> "",
       PageCursor |-> c, WithHTMLContent |-> FALSE] :
        loc \in {"later"}, c \in {NoCursor, "a"} }

(* ------------------------------ List ----------------------------------- *)
\* document.toDocument
toDocument(dr) == [ID |-> dr.id, Title |-> dr.title]

\* listResponse.toListResponse
toListResponse(lr) ==
    [NextPageCursor |-> lr.next,
     Page |-> MkPage(lr.count,
                     [i \in 1..Len(lr.results) |-> toDocument(lr.results[i])])]

\* Client.list from the outcome of Do and ReadAll on
list(r) ==
    IF r.tr = "do" THEN [resp |-> r, err |-> MkErr("do", r.cause, 0, <<>>, Zero64)]
    ELSE IF r.tr = "readall"
    THEN [resp |-> r, err |-> MkErr("readall", r.cause, 0, <<>>, Zero64)]
    ELSE [resp |-> r, err |-> NilErr]

ListFail(err) == [err |-> err, NextPageCursor |-> NoCursor, Page |-> ZeroPage]

\* Client.List from the outcome of Client.list on
List(r) ==
    LET lr == list(r)
        resp == lr.resp
    IN  IF lr.err # NilErr THEN ListFail(lr.err)
        ELSE IF resp.status = StatusTooManyRequests
        THEN LET retryAfter == resp.retryAfter
                 seconds == Atoi(retryAfter)
             IN  IF ~seconds.ok
                 THEN ListFail(MkErr("retryafter", "atoi", 0, retryAfter, Zero64))
                 ELSE ListFail(ErrorRateLimited(MulSecond64(seconds.n)))
        ELSE IF resp.status # StatusOK
        THEN ListFail(MkErr("status", "", resp.status, <<>>, Zero64))
        ELSE IF ~resp.body.json
        THEN ListFail(MkErr("decode", "json", 0, <<>>, Zero64))
        ELSE LET out == toListResponse(resp.body)
             IN  [err |-> NilErr, NextPageCursor |-> out.NextPageCursor,
                  Page |-> out.Page]

\* errors.As(err, &rle)
AsRateLimited(err) == err.kind = "ratelimited"

(* --------------------------- ListPaginate ------------------------------ *)
\* the iteration sessions of the model: one ListPaginate call each
Sessions == {1}

\* it[s] is the state of session s:
\*   pc        where the iterator function stands
\*   caller    the ListParams value the caller passed (the caller's copy)
\*   params    the params variable captured by the iterator function
\*   cursor    the local variable cursor
\*   ctxErr    ctx.Err(): NilErr until the context is cancelled
\*   ctxAtDo   whether the context was cancelled when Do was called
\*   res       what the last call of List returned
\*   delay     the duration given to time.After
\*   elapsed   seconds since time.After was called, counted until the
\*             timer fires
\*   fired     whether the channel of time.After has the timer's value
\*   inflight  HTTP requests handed to the client and not yet answered
\*   requests  the params of every List call, in order
\*   wire      what Do and ReadAll gave for every answered request
\*   outcomes  what every List call returned, in order
\*   yielded   the items given to yield, each with the number of List
\*             calls made when it was yielded
\*   stopped   whether yield returned false
\*   waitCancel  the number of List calls made when the context was
\*             cancelled during the select, -1 before
\*   yieldCancel the number of List calls made when the context was
\*             cancelled while a page was with the consumer, -1 before
\*   env       which responses the server may give the session
\*   limit     the number of List calls the session may make in the model
\*   trav      the number of traversals of the sequence begun
\*   carried   the cursor of the last request of the earlier traversals,
\*             the caller's cursor when there is none
\* rt is the state of one authTransport.RoundTrip call and cli the state of
\* the readerctl process (both defined with their actions below)
VARIABLES it, rt, cli

vars == <<it, rt, cli>>

InitSession(p) ==
    [pc |-> "idle", caller |-> p, params |-> p, cursor |-> NoCursor,
     ctxErr |-> NilErr, ctxAtDo |-> FALSE, res |-> ListFail(NilErr),
     delay |-> Zero64, elapsed |-> 0, fired |-> FALSE, inflight |-> 0,
     requests |-> <<>>, wire |-> <<>>, outcomes |-> <<>>, yielded |-> <<>>,
     stopped |-> FALSE, waitCancel |-> -1, yieldCancel |-> -1,
     env |-> "any", limit |-> MaxRequests, trav |-> 1,
     carried |-> p.PageCursor]

\* no RoundTrip call and no readerctl process
RtIdle == [pc |-> "idle"]
CliOff == [pc |-> "off"]

Init ==
    /\ \E p \in CallerParams : it = [s \in Sessions |-> InitSession(p)]
    /\ rt = RtIdle
    /\ cli = CliOff

Last(seq) == seq[Len(seq)]

\* yield(page, err)
Yield(q, page, err) ==
    Append(q.yielded, [page |-> page, err |-> err, req |-> Len(q.requests)])

\* the timer of time.After(delay) has fired
TimerReady(q) == Leq64(q.delay, MulSecond64(Nat64(q.elapsed)))

\* what Do and ReadAll may give for the request in flight: a context
\* cancelled before Do fails the request; one cancelled during the request
\* may fail it or come too late
HttpResults(q) ==
    IF q.ctxAtDo THEN { HttpFailure("do", "ctx") }
    ELSE IF q.ctxErr # NilErr
    THEN Responses(q.env) \cup CtxFailures
    ELSE Responses(q.env)

\* the iterator function is called: cursor := params.PageCursor
Start(s) ==
    /\ it[s].pc = "idle"
    /\ it' = [it EXCEPT ![s].cursor = it[s].params.PageCursor,
                        ![s].pc = "loop"]
    /\ UNCHANGED <<rt, cli>>

\* Fetch with the cursor kept in one place for all sessions of the Client
FetchSharedCursor(s) ==
    /\ it[s].pc = "loop"
    /\ Len(it[s].requests) < it[s].limit
    /\ LET o == IF DOMAIN it = {s} THEN s
                ELSE CHOOSE x \in DOMAIN it : x # s
           p == [it[s].params EXCEPT !.PageCursor = it[o].cursor]
       IN  it' = [it EXCEPT ![s].params = p,
                            ![s].requests = Append(@, p),
                            ![s].inflight = @ + 1,
                            ![s].ctxAtDo = it[s].ctxErr # NilErr,
                            ![s].pc = "inflight"]
    /\ UNCHANGED <<rt, cli>>

\* Fetch that sends the cursor and loses the Location filter
FetchDropsFilter(s) ==
    /\ it[s].pc = "loop"
    /\ Len(it[s].requests) < it[s].limit
    /\ LET p == [it[s].params EXCEPT !.PageCursor = it[s].cursor,
                                     !.Location = ""]
       IN  it' = [it EXCEPT ![s].params = p,
                            ![s].requests = Append(@, p),
                            ![s].inflight = @ + 1,
                            ![s].ctxAtDo = it[s].ctxErr # NilErr,
                            ![s].pc = "inflight"]
    /\ UNCHANGED <<rt, cli>>

\* Fetch that hands the request to the client and does not wait for it
FetchAsync(s) ==
    /\ it[s].pc = "loop"
    /\ Len(it[s].requests) < it[s].limit
    /\ LET p == [it[s].params EXCEPT !.PageCursor = it[s].cursor]
       IN  it' = [it EXCEPT ![s].params = p,
                            ![s].requests = Append(@, p),
                            ![s].inflight = @ + 1,
                            ![s].ctxAtDo = it[s].ctxErr # NilErr]
    /\ UNCHANGED <<rt, cli>>

\* params.PageCursor = cursor; c.List(ctx, params) up to c.client.Do
Fetch(s) ==
    /\ it[s].pc = "loop"
    /\ Len(it[s].requests) < it[s].limit
    /\ LET p == [it[s].params EXCEPT !.PageCursor = it[s].cursor]
       IN  it' = [it EXCEPT ![s].params = p,
                            ![s].requests = Append(@, p),
                            ![s].inflight = @ + 1,
                            ![s].ctxAtDo = it[s].ctxErr # NilErr,
                            ![s].pc = "inflight"]
    /\ UNCHANGED <<rt, cli>>

\* Do returns and List classifies the outcome
ListReturn(s) ==
    /\ it[s].pc = "inflight"
    /\ \E r \in HttpResults(it[s]) :
         it' = [it EXCEPT ![s].res = List(r),
                          ![s].wire = Append(@, r),
                          ![s].outcomes = Append(@, List(r)),
                          ![s].inflight = @ - 1,
                          ![s].pc = "returned"]
    /\ UNCHANGED <<rt, cli>>

\* RateLimitedCancelled without the ctx.Err() test: the wait starts
RateLimitedNoCheck(s) ==
    /\ it[s].pc = "returned"
    /\ AsRateLimited(it[s].res.err)
    /\ it[s].ctxErr # NilErr
    /\ it' = [it EXCEPT ![s].delay = it[s].res.err.RetryAfter,
                        ![s].elapsed = 0,
                        ![s].fired = TimerReady([delay |-> it[s].res.err.RetryAfter,
                                                 elapsed |-> 0]),
                        ![s].pc = "select"]
    /\ UNCHANGED <<rt, cli>>

\* a rate-limit signal with the context already cancelled
RateLimitedCancelled(s) ==
    /\ it[s].pc = "returned"
    /\ AsRateLimited(it[s].res.err)
    /\ it[s].ctxErr # NilErr
    /\ it' = [it EXCEPT ![s].yielded = Yield(it[s], ZeroPage, it[s].ctxErr),
                        ![s].pc = "done"]
    /\ UNCHANGED <<rt, cli>>

\* a rate-limit signal: enter the select on time.After and ctx.Done
EnterSelect(s) ==
    /\ it[s].pc = "returned"
    /\ AsRateLimited(it[s].res.err)
    /\ it[s].ctxErr = NilErr
    /\ it' = [it EXCEPT ![s].delay = it[s].res.err.RetryAfter,
                        ![s].elapsed = 0,
                        ![s].fired = TimerReady([delay |-> it[s].res.err.RetryAfter,
                                                 elapsed |-> 0]),
                        ![s].pc = "select"]
    /\ UNCHANGED <<rt, cli>>

\* a second passes while the iterator is in the select
Tick(s) ==
    /\ it[s].pc = "select"
    /\ it[s].elapsed < MaxTicks
    /\ ~it[s].fired
    /\ it' = [it EXCEPT ![s].elapsed = @ + 1,
                        ![s].fired = TimerReady([delay |-> it[s].delay,
                                                 elapsed |-> it[s].elapsed + 1])]
    /\ UNCHANGED <<rt, cli>>

\* SelectTimer that moves on to the response's next cursor
SelectTimerAdvance(s) ==
    /\ it[s].pc = "select"
    /\ it[s].fired
    /\ it' = [it EXCEPT ![s].cursor = it[s].res.NextPageCursor,
                        ![s].pc = "loop"]
    /\ UNCHANGED <<rt, cli>>

\* SelectTimer with a budget of one retry: the second signal in a row is
\* given up on
SelectTimerBudget(s) ==
    /\ it[s].pc = "select"
    /\ it[s].fired
    /\ it' = [it EXCEPT ![s].pc =
                IF /\ Len(it[s].outcomes) >= 2
                   /\ AsRateLimited(it[s].outcomes[Len(it[s].outcomes) - 1].err)
                THEN "done" ELSE "loop"]
    /\ UNCHANGED <<rt, cli>>

\* case <-time.After(rle.RetryAfter): continue
SelectTimer(s) ==
    /\ it[s].pc = "select"
    /\ it[s].fired
    /\ it' = [it EXCEPT ![s].pc = "loop"]
    /\ UNCHANGED <<rt, cli>>

\* SelectCtxDone that yields err, the rate-limit signal, not ctx.Err()
SelectCtxDoneYieldsErr(s) ==
    /\ it[s].pc = "select"
    /\ it[s].ctxErr # NilErr
    /\ it' = [it EXCEPT ![s].yielded = Yield(it[s], ZeroPage, it[s].res.err),
                        ![s].pc = "done"]
    /\ UNCHANGED <<rt, cli>>

\* SelectCtxDone that looks at ctx.Done only once the timer has fired
SelectCtxDoneAfterTimer(s) ==
    /\ it[s].pc = "select"
    /\ it[s].ctxErr # NilErr
    /\ it[s].fired
    /\ it' = [it EXCEPT ![s].yielded = Yield(it[s], ZeroPage, it[s].ctxErr),
                        ![s].pc = "done"]
    /\ UNCHANGED <<rt, cli>>

\* case <-ctx.Done(): yield(Page{}, ctx.Err()); return
SelectCtxDone(s) ==
    /\ it[s].pc = "select"
    /\ it[s].ctxErr # NilErr
    /\ it' = [it EXCEPT ![s].yielded = Yield(it[s], ZeroPage, it[s].ctxErr),
                        ![s].pc = "done"]
    /\ UNCHANGED <<rt, cli>>

\* YieldError without the return: the request is tried again
YieldErrorRetry(s) ==
    /\ it[s].pc = "returned"
    /\ ~AsRateLimited(it[s].res.err)
    /\ it[s].res.err # NilErr
    /\ it' = [it EXCEPT ![s].yielded = Yield(it[s], ZeroPage, it[s].res.err),
                        ![s].pc = "loop"]
    /\ UNCHANGED <<rt, cli>>

\* any other error: yield(Page{}, err); return
YieldError(s) ==
    /\ it[s].pc = "returned"
    /\ ~AsRateLimited(it[s].res.err)
    /\ it[s].res.err # NilErr
    /\ it' = [it EXCEPT ![s].yielded = Yield(it[s], ZeroPage, it[s].res.err),
                        ![s].pc = "done"]
    /\ UNCHANGED <<rt, cli>>

\* yield(resp.Page, nil): the consumer's loop body runs
YieldPage(s) ==
    /\ it[s].pc = "returned"
    /\ it[s].res.err = NilErr
    /\ it' = [it EXCEPT ![s].yielded = Yield(it[s], it[s].res.Page, NilErr),
                        ![s].pc = "yielded"]
    /\ UNCHANGED <<rt, cli>>

\* ConsumerStop with the result of yield ignored
ConsumerStopIgnored(s) ==
    /\ it[s].pc = "yielded"
    /\ it' = [it EXCEPT ![s].stopped = TRUE, ![s].pc = "loop"]
    /\ UNCHANGED <<rt, cli>>

\* yield returns false: return
ConsumerStop(s) ==
    /\ it[s].pc = "yielded"
    /\ it' = [it EXCEPT ![s].stopped = TRUE, ![s].pc = "done"]
    /\ UNCHANGED <<rt, cli>>

\* LastPage with the test of the next cursor inverted
LastPageInverted(s) ==
    /\ it[s].pc = "yielded"
    /\ it[s].res.NextPageCursor # NoCursor
    /\ it' = [it EXCEPT ![s].pc = "done"]
    /\ UNCHANGED <<rt, cli>>

\* yield returns true and resp.NextPageCursor == "": return
LastPage(s) ==
    /\ it[s].pc = "yielded"
    /\ it[s].res.NextPageCursor = NoCursor
    /\ it' = [it EXCEPT ![s].pc = "done"]
    /\ UNCHANGED <<rt, cli>>

\* NextPage without the assignment to cursor
NextPageStale(s) ==
    /\ it[s].pc = "yielded"
    /\ it[s].res.NextPageCursor # NoCursor
    /\ it' = [it EXCEPT ![s].pc = "loop"]
    /\ UNCHANGED <<rt, cli>>

\* yield returns true: cursor = resp.NextPageCursor
NextPage(s) ==
    /\ it[s].pc = "yielded"
    /\ it[s].res.NextPageCursor # NoCursor
    /\ it' = [it EXCEPT ![s].cursor = it[s].res.NextPageCursor,
                        ![s].pc = "loop"]
    /\ UNCHANGED <<rt, cli>>

\* the caller cancels the context of the session
Cancel(s) ==
    /\ it[s].pc # "done"
    /\ it[s].ctxErr = NilErr
    /\ it' = [it EXCEPT ![s].ctxErr = CtxErr,
                        ![s].waitCancel =
                            IF it[s].pc = "select" THEN Len(it[s].requests)
                            ELSE @,
                        ![s].yieldCancel =
                            IF it[s].pc = "yielded" THEN Len(it[s].requests)
                            ELSE @]
    /\ UNCHANGED <<rt, cli>>



Next ==
    \E s \in Sessions :
        \/ Start(s)
        \/ Fetch(s)
        \/ ListReturn(s)
        \/ RateLimitedCancelled(s)
        \/ EnterSelect(s)
        \/ Tick(s)
        \/ SelectTimer(s)
        \/ SelectCtxDone(s)
        \/ YieldError(s)
        \/ YieldPage(s)
        \/ ConsumerStop(s)
        \/ LastPage(s)
        \/ NextPage(s)
        \/ Cancel(s)

Spec == Init /\ [][Next]_vars

(* ------------------------- two sessions -------------------------------- *)
\* two ListPaginate calls on one Client, each with its own params and ctx
TwoSessions == {1, 2}

\* the first call starts at the beginning, the second at cursor "a"
TwoCallers ==
    [s \in TwoSessions |->
       CHOOSE p \in CallerParams :
           p.PageCursor = (IF s = 1 THEN NoCursor ELSE "a")]

InitTwo ==
    /\ it = [s \in TwoSessions |->
              [InitSession(TwoCallers[s]) EXCEPT !.env = "few",
                                                 !.limit = MaxRequestsTwo]]
    /\ rt = RtIdle
    /\ cli = CliOff

NextTwo ==
    \E s \in TwoSessions :
        \/ Start(s)
        \/ Fetch(s)
        \/ ListReturn(s)
        \/ RateLimitedCancelled(s)
        \/ EnterSelect(s)
        \/ Tick(s)
        \/ SelectTimer(s)
        \/ SelectCtxDone(s)
        \/ YieldError(s)
        \/ YieldPage(s)
        \/ ConsumerStop(s)
        \/ LastPage(s)
        \/ NextPage(s)
        \/ Cancel(s)

SpecTwo == InitTwo /\ [][NextTwo]_vars

\* a select with a ready case proceeds with one: the goroutine blocked in
\* the select is woken when the timer channel or ctx.Done() becomes ready
FairSpec ==
    /\ Spec
    /\ WF_vars(\E s \in Sessions : SelectTimer(s))
    /\ WF_vars(\E s \in Sessions : SelectCtxDone(s))

(* ------------------- a sequence value ranged over again ---------------- *)
\* how many times the model ranges over one returned sequence value
MaxTraversals == 2

InitRetraverse ==
    /\ \E p \in CallerParams :
         it = [s \in Sessions |->
                 [InitSession(p) EXCEPT !.env = "few", !.limit = MaxRequestsTwo]]
    /\ rt = RtIdle
    /\ cli = CliOff

\* the returned func is called again: the closure still holds ctx and the
\* params variable as the earlier call left it; the locals are new
Restart(s) ==
    /\ it[s].pc = "done"
    /\ it[s].trav < MaxTraversals
    /\ it' = [it EXCEPT ![s] =
                [InitSession(it[s].caller) EXCEPT
                   !.params = it[s].params,
                   !.ctxErr = it[s].ctxErr,
                   !.env = it[s].env,
                   !.limit = it[s].limit,
                   !.trav = it[s].trav + 1,
                   !.carried = it[s].params.PageCursor]]
    /\ UNCHANGED <<rt, cli>>

NextRetraverse ==
    \/ Next
    \/ \E s \in Sessions : Restart(s)

SpecRetraverse == InitRetraverse /\ [][NextRetraverse]_vars

(* ----------------------- authTransport.RoundTrip ---------------------- *)
\* API tokens given to NewClient
Tokens == {"tok1", "tok2"}

\* Authorization header values a request may already carry
RequestAuths == {<<>>, <<"Bearer", "x">>}

\* NewClient: authorizationHeader = fmt.Sprintf("Token %s", token)
NewClient(token) == [authorizationHeader |-> <<"Token", token>>, token |-> token]

\* what the embedded *http.Transport returns: a response and a nil error, or
\* a nil response and an error
NilResponse == HttpFailure("do", "nil")
TransportResults ==
    { [resp |-> r, err |-> "nil"] : r \in ServerResponses }
    \cup { [resp |-> NilResponse, err |-> e] : e \in {"net", "ctx"} }

\* rt is one call of RoundTrip:
\*   pc     where the call stands
\*   t      the authTransport (of NewClient)
\*   debug  os.Getenv("READWISE_DEBUG") != ""
\*   auth   the Authorization header of req
\*   under  what t.Transport.RoundTrip returned
\*   ret    what RoundTrip returned
\*   dumps  the dumps printed
InitTransport ==
    /\ it = <<>>
    /\ cli = CliOff
    /\ \E token \in Tokens, a \in RequestAuths, d \in BOOLEAN :
         rt = [pc |-> "called", t |-> NewClient(token), debug |-> d,
               auth |-> a, under |-> [resp |-> NilResponse, err |-> "nil"],
               ret |-> [resp |-> NilResponse, err |-> "nil"], dumps |-> <<>>]

\* req.Header.Set("Authorization", t.authorizationHeader); the debug flag is
\* read
RoundTripSetHeader ==
    /\ rt.pc = "called"
    /\ rt' = [rt EXCEPT !.auth = rt.t.authorizationHeader, !.pc = "header"]
    /\ UNCHANGED <<it, cli>>

\* resp, err := t.Transport.RoundTrip(req)
RoundTripDelegate ==
    /\ rt.pc = "header"
    /\ \E u \in TransportResults :
         rt' = [rt EXCEPT !.under = u, !.pc = "delegated"]
    /\ UNCHANGED <<it, cli>>

\* if debug: the request is dumped and printed
RoundTripDumpRequest ==
    /\ rt.pc = "delegated"
    /\ rt.debug
    /\ rt' = [rt EXCEPT !.dumps = Append(@, "request"), !.pc = "dumpresp"]
    /\ UNCHANGED <<it, cli>>

\* httputil.DumpResponse(resp, true) of a response: its body is read and
\* put back, and the dump is printed
RoundTripDumpResponse ==
    /\ rt.pc = "dumpresp"
    /\ rt.under.resp # NilResponse
    /\ rt' = [rt EXCEPT !.dumps = Append(@, "response"), !.pc = "return"]
    /\ UNCHANGED <<it, cli>>

\* httputil.DumpResponse(resp, true) of a nil response reads resp.Body: a
\* nil pointer dereference, the goroutine panics
RoundTripDumpNil ==
    /\ rt.pc = "dumpresp"
    /\ rt.under.resp = NilResponse
    /\ rt' = [rt EXCEPT !.pc = "panic"]
    /\ UNCHANGED <<it, cli>>

\* debug is false: nothing is dumped
RoundTripNoDebug ==
    /\ rt.pc = "delegated"
    /\ ~rt.debug
    /\ rt' = [rt EXCEPT !.pc = "return"]
    /\ UNCHANGED <<it, cli>>

\* return resp, err
RoundTripReturn ==
    /\ rt.pc = "return"
    /\ rt' = [rt EXCEPT !.ret = rt.under, !.pc = "returned"]
    /\ UNCHANGED <<it, cli>>

NextTransport ==
    \/ RoundTripSetHeader
    \/ RoundTripDelegate
    \/ RoundTripDumpRequest
    \/ RoundTripDumpResponse
    \/ RoundTripDumpNil
    \/ RoundTripNoDebug
    \/ RoundTripReturn

SpecTransport == InitTransport /\ [][NextTransport]_vars

(* ------------------ ListPaginate over the debug transport -------------- *)
\* no RoundTrip call under way, in a process with READWISE_DEBUG set or not
RtEnv(d) == [pc |-> "idle", debug |-> d]

InitDebug ==
    /\ \E p \in CallerParams :
         it = [s \in Sessions |->
                 [InitSession(p) EXCEPT !.env = "few", !.limit = MaxRequestsTwo]]
    /\ \E d \in BOOLEAN : rt = RtEnv(d)
    /\ cli = CliOff

\* Do returns; in debug mode only when the transport gave a response
DebugListReturn(s) ==
    /\ ListReturn(s)
    /\ ~(rt.debug /\ Last(it'[s].wire).tr = "do")

\* in debug mode the transport gives an error and no response: RoundTrip
\* panics in httputil.DumpResponse (see RoundTripDumpNil) and the panic
\* unwinds Do, List and the iterator function
DebugPanic(s) ==
    /\ rt.debug
    /\ it[s].pc = "inflight"
    /\ \E r \in HttpResults(it[s]) : r.tr = "do"
    /\ it' = [it EXCEPT ![s].pc = "panic"]
    /\ UNCHANGED <<rt, cli>>

NextDebug ==
    \E s \in Sessions :
        \/ Start(s)
        \/ Fetch(s)
        \/ DebugListReturn(s)
        \/ DebugPanic(s)
        \/ RateLimitedCancelled(s)
        \/ EnterSelect(s)
        \/ Tick(s)
        \/ SelectTimer(s)
        \/ SelectCtxDone(s)
        \/ YieldError(s)
        \/ YieldPage(s)
        \/ ConsumerStop(s)
        \/ LastPage(s)
        \/ NextPage(s)
        \/ Cancel(s)

SpecDebug == InitDebug /\ [][NextDebug]_vars

(* --------------------------- readerctl list ---------------------------- *)
\* the API token of the flags, the environment or the config file
ApiTokens == {"", "tok1"}

\* readwisereader.ListParams{}
ZeroListParams ==
    [ID |-> "", UpdatedAfter |-> 0, Location |-> "", Category |-> "",
     PageCursor |-> NoCursor, WithHTMLContent |-> FALSE]

\* fmt.Errorf("%w: %v", ErrorUsage, err) of RootOpts.validate
UsageErr == MkErr("usage", "api token is required", 0, <<>>, Zero64)

\* fmt.Fprintf(stdout, "Article %s:\n%s\n\n", article.ID, article.Title)
FprintfArticle(article) == <<"Article ", article.ID, ":\n", article.Title, "\n\n">>

\* fmt.Fprintf(os.Stderr, "error: %v\n", err)
FprintfError(err) == <<"error: ", err, "\n">>

\* the help text of the command, and the trace of a panic
HelpText == <<"help">>
PanicTrace == <<"panic">>

\* cli is one run of "readerctl list":
\*   pc      where the process stands
\*   token   rootopts.APIToken
\*   debug   whether READWISE_DEBUG is set
\*   seen    how many yielded items the range loop has taken
\*   stdout  what was written to standard output
\*   stderr  what was written to standard error
\*   ret     what run returned
\*   exit    the exit code, -1 while the process runs
InitCli ==
    /\ it = [s \in Sessions |->
               [InitSession(ZeroListParams) EXCEPT !.env = "twodoc"]]
    /\ rt = RtIdle
    /\ \E token \in ApiTokens, d \in BOOLEAN :
         cli = [pc |-> "parsed", token |-> token, debug |-> d, seen |-> 0,
                stdout |-> <<>>, stderr |-> <<>>, ret |-> NilErr, exit |-> -1]

\* withRootFlags: validate fails, Exec returns the usage error, run prints
\* the help and returns it
CliUsage ==
    /\ cli.pc = "parsed"
    /\ cli.token = ""
    /\ cli' = [cli EXCEPT !.ret = UsageErr, !.stderr = Append(@, HelpText),
                          !.pc = "returned"]
    /\ UNCHANGED <<it, rt>>

\* Exec of the list command: client, ListPaginate(ctx, ListParams{})
CliExec ==
    /\ cli.pc = "parsed"
    /\ cli.token # ""
    /\ cli' = [cli EXCEPT !.pc = "ranging"]
    /\ UNCHANGED <<it, rt>>

\* for page, err := range it
CliRange ==
    /\ cli.pc = "ranging"
    /\ Start(1)

\* Do returns; in debug mode only with a response (see RoundTripDumpNil)
CliListReturn ==
    /\ cli.pc = "ranging"
    /\ ListReturn(1)
    /\ ~(cli.debug /\ Last(it'[1].wire).tr = "do")

\* in debug mode the transport gives no response: RoundTrip panics and the
\* process dies with exit code 2
CliPanic ==
    /\ cli.pc = "ranging"
    /\ cli.debug
    /\ it[1].pc = "inflight"
    /\ \E r \in HttpResults(it[1]) : r.tr = "do"
    /\ cli' = [cli EXCEPT !.stderr = Append(@, PanicTrace), !.exit = 2,
                          !.pc = "exited"]
    /\ UNCHANGED <<it, rt>>

\* CliPrintPage that prints the first document of the page only
CliPrintFirst ==
    /\ cli.pc = "ranging"
    /\ it[1].pc = "yielded"
    /\ cli.seen < Len(it[1].yielded)
    /\ LET page == it[1].yielded[cli.seen + 1].page
       IN  cli' = [cli EXCEPT
                     !.stdout = @ \o [i \in 1..(IF Len(page.Results) > 0
                                                THEN 1 ELSE 0) |->
                                        FprintfArticle(page.Results[i])],
                     !.seen = @ + 1]
    /\ UNCHANGED <<it, rt>>

\* the loop body with a page: every article is printed
CliPrintPage ==
    /\ cli.pc = "ranging"
    /\ it[1].pc = "yielded"
    /\ cli.seen < Len(it[1].yielded)
    /\ LET page == it[1].yielded[cli.seen + 1].page
       IN  cli' = [cli EXCEPT
                     !.stdout = @ \o [i \in 1..Len(page.Results) |->
                                        FprintfArticle(page.Results[i])],
                     !.seen = @ + 1]
    /\ UNCHANGED <<it, rt>>

\* the loop body ends: yield returns true
CliLoopNext ==
    /\ cli.pc = "ranging"
    /\ cli.seen = Len(it[1].yielded)
    /\ LastPage(1) \/ NextPage(1)

\* the loop body with an error: return err
CliReturnErr ==
    /\ cli.pc = "ranging"
    /\ it[1].pc = "done"
    /\ cli.seen < Len(it[1].yielded)
    /\ cli' = [cli EXCEPT !.ret = it[1].yielded[cli.seen + 1].err,
                          !.seen = @ + 1, !.pc = "returned"]
    /\ UNCHANGED <<it, rt>>

\* the range loop ends: return nil
CliReturnNil ==
    /\ cli.pc = "ranging"
    /\ it[1].pc = "done"
    /\ cli.seen = Len(it[1].yielded)
    /\ cli' = [cli EXCEPT !.ret = NilErr, !.pc = "returned"]
    /\ UNCHANGED <<it, rt>>

\* main: run returned an error
CliMainError ==
    /\ cli.pc = "returned"
    /\ cli.ret # NilErr
    /\ cli' = [cli EXCEPT !.stderr = Append(@, FprintfError(cli.ret)),
                          !.exit = 1, !.pc = "exited"]
    /\ UNCHANGED <<it, rt>>

\* main: run returned nil
CliMainOk ==
    /\ cli.pc = "returned"
    /\ cli.ret = NilErr
    /\ cli' = [cli EXCEPT !.exit = 0, !.pc = "exited"]
    /\ UNCHANGED <<it, rt>>

\* os.Interrupt: the context of signal.NotifyContext is cancelled
CliInterrupt ==
    /\ cli.pc \in {"parsed", "ranging"}
    /\ Cancel(1)

NextCli ==
    \/ CliUsage
    \/ CliExec
    \/ CliRange
    \/ Fetch(1)
    \/ CliListReturn
    \/ CliPanic
    \/ RateLimitedCancelled(1)
    \/ EnterSelect(1)
    \/ Tick(1)
    \/ SelectTimer(1)
    \/ SelectCtxDone(1)
    \/ YieldError(1)
    \/ YieldPage(1)
    \/ CliPrintPage
    \/ CliLoopNext
    \/ CliReturnErr
    \/ CliReturnNil
    \/ CliMainError
    \/ CliMainOk
    \/ CliInterrupt

SpecCli == InitCli /\ [][NextCli]_vars

(* ------------------------------ claims --------------------------------- *)
IsSignal(e) == e.kind = "ratelimited"
IsPage(o) == o.err = NilErr
ErrItems(q) == { i \in 1..Len(q.yielded) : q.yielded[i].err # NilErr }

\* no rate limiting, no error, no cancellation, and the consumer keeps
\* pulling
Clean(q) ==
    /\ q.ctxErr = NilErr
    /\ ~q.stopped
    /\ \A i \in 1..Len(q.outcomes) : IsPage(q.outcomes[i])

\* C1: when every response so far is a page, nothing was cancelled and the
\* consumer keeps pulling, the items yielded are exactly the pages returned,
\* in order and with nil errors; no request follows a page with an empty
\* next-cursor; and the session is done only after a page with an empty
\* next-cursor, with as many requests as pages.
C1_ChainYieldedInOrder ==
    \A s \in DOMAIN it :
        LET q == it[s]
            n == Len(q.outcomes)
        IN  Clean(q) =>
              /\ Len(q.yielded) <= n
              /\ n <= Len(q.yielded) + 1
              /\ \A i \in 1..Len(q.yielded) :
                     /\ q.yielded[i].err = NilErr
                     /\ q.yielded[i].page = q.outcomes[i].Page
              /\ \A i \in 1..n :
                     q.outcomes[i].NextPageCursor = NoCursor
                         => Len(q.requests) = i
              /\ q.pc = "done" =>
                     /\ n >= 1
                     /\ Len(q.requests) = n
                     /\ Len(q.yielded) = n
                     /\ Last(q.outcomes).NextPageCursor = NoCursor

\* C1 witness: a clean session that ended after a chain of two pages
C1_Witness ==
    \E s \in DOMAIN it :
        /\ Clean(it[s])
        /\ it[s].pc = "done"
        /\ Len(it[s].yielded) = 2
        /\ it[s].yielded[1].page # it[s].yielded[2].page

\* C2: after a rate-limit signal for request i, a further request carries
\* the same params (the same cursor), is issued only once the timer of the
\* select on the signaled duration has fired, and no item is yielded in
\* between; when that retry returns a page, the page is the next item, with
\* a nil error, and if request i was the first for that page, exactly two
\* requests were made for it.
C2_RetrySameCursor ==
    \A s \in DOMAIN it :
        LET q == it[s]
        IN  /\ ( /\ q.pc = "loop"
                 /\ q.outcomes # <<>>
                 /\ IsSignal(Last(q.outcomes).err) )
                    => /\ q.delay = Last(q.outcomes).err.RetryAfter
                       /\ Leq64(q.delay, MulSecond64(Nat64(q.elapsed)))
            /\ \A i \in 1..Len(q.outcomes) :
                   (IsSignal(q.outcomes[i].err) /\ i < Len(q.requests)) =>
                     /\ q.requests[i + 1] = q.requests[i]
                     /\ \A k \in 1..Len(q.yielded) : q.yielded[k].req # i
                     /\ \A k \in 1..Len(q.yielded) :
                          ( /\ q.yielded[k].req = i + 1
                            /\ i + 1 <= Len(q.outcomes)
                            /\ IsPage(q.outcomes[i + 1]) ) =>
                              /\ q.yielded[k].err = NilErr
                              /\ q.yielded[k].page = q.outcomes[i + 1].Page
                              /\ k > 1 => q.yielded[k - 1].req < i
                              /\ (i = 1) => k = 1
                              /\ (i > 1 /\ IsPage(q.outcomes[i - 1])) =>
                                    /\ k > 1
                                    /\ q.yielded[k - 1].req = i - 1

\* C2 witness: a page was yielded, a request with a non-empty cursor was rate
\* limited, waited out for two seconds and retried, and the page of the
\* retry was yielded
C2_Witness ==
    \E s \in DOMAIN it :
        LET q == it[s]
        IN  /\ q.ctxErr = NilErr
            /\ Len(q.outcomes) = 3
            /\ IsPage(q.outcomes[1])
            /\ IsSignal(q.outcomes[2].err)
            /\ q.requests[2].PageCursor # NoCursor
            /\ q.elapsed = 2
            /\ IsPage(q.outcomes[3])
            /\ Len(q.yielded) = 2
            /\ q.yielded[2].req = 3

\* C3 (as claimed): once the context is cancelled during the select, no
\* further request is issued, and the session ends with exactly one error
\* item, the cancellation error.
C3_CancelInWaitEndsSession ==
    \A s \in DOMAIN it :
        LET q == it[s]
        IN  q.waitCancel # -1 =>
              /\ Len(q.requests) = q.waitCancel
              /\ q.pc = "done" =>
                    /\ Cardinality(ErrItems(q)) = 1
                    /\ Last(q.yielded).err = CtxErr

\* C4: once yield has returned false, the session issues no request and
\* yields nothing.
C4_NoRequestAfterStop ==
    [][\A s \in DOMAIN it :
          it[s].stopped =>
            /\ it'[s].requests = it[s].requests
            /\ it'[s].inflight = it[s].inflight
            /\ it'[s].yielded = it[s].yielded
            /\ it'[s].pc = "done"]_vars

\* C4 witness: the consumer stopped after a page with a non-empty
\* next-cursor, with requests left in the model's budget
C4_Witness ==
    \E s \in DOMAIN it :
        /\ it[s].stopped
        /\ it[s].pc = "done"
        /\ it[s].res.NextPageCursor # NoCursor
        /\ Len(it[s].requests) < it[s].limit

\* C5: a session yields at most one error item, and it is the last item of
\* a finished session; an error of List that is no rate-limit signal is the
\* outcome of the last request (it is never retried) and, once handled, the
\* last item yielded, with the zero Page.
C5_ErrorIsFinal ==
    \A s \in DOMAIN it :
        LET q == it[s]
        IN  /\ Cardinality(ErrItems(q)) <= 1
            /\ \A k \in ErrItems(q) : k = Len(q.yielded) /\ q.pc = "done"
            /\ \A i \in 1..Len(q.outcomes) :
                   LET e == q.outcomes[i].err
                   IN  (e # NilErr /\ ~IsSignal(e)) =>
                         /\ i = Len(q.requests)
                         /\ q.pc \in {"returned", "done"}
                         /\ q.pc = "done" =>
                               /\ q.yielded # <<>>
                               /\ Last(q.yielded) =
                                    [page |-> ZeroPage, err |-> e, req |-> i]

\* C5 witness: a 429 with a Retry-After that is no integer ended the session
\* as its error item
C5_Witness ==
    \E s \in DOMAIN it :
        LET q == it[s]
        IN  /\ q.pc = "done"
            /\ Len(q.outcomes) = 2
            /\ Last(q.outcomes).err.kind = "retryafter"
            /\ Last(q.outcomes).err.raw = <<"a", "b", "c">>
            /\ Len(q.yielded) = 2
            /\ Last(q.yielded).err = Last(q.outcomes).err

\* C6: when List has returned a rate-limit signal and the context is
\* cancelled, the next step of the session yields the zero Page with
\* ctx.Err() and ends it: no timer is started and no request issued.
C6_CancelledSkipsWait ==
    [][\A s \in DOMAIN it :
          LET q == it[s]
          IN  ( /\ q.pc = "returned"
                /\ IsSignal(q.res.err)
                /\ q.ctxErr # NilErr
                /\ it'[s] # q ) =>
                  /\ it'[s].pc = "done"
                  /\ it'[s].yielded =
                       Append(q.yielded, [page |-> ZeroPage, err |-> CtxErr,
                                          req |-> Len(q.requests)])
                  /\ it'[s].requests = q.requests
                  /\ it'[s].delay = q.delay
                  /\ it'[s].elapsed = q.elapsed]_vars

\* C6 witness: a session ended by a rate-limit signal that met a cancelled
\* context, without having been cancelled in a select
C6_Witness ==
    \E s \in DOMAIN it :
        LET q == it[s]
        IN  /\ q.pc = "done"
            /\ IsSignal(q.res.err)
            /\ q.ctxErr # NilErr
            /\ q.waitCancel = -1
            /\ q.delay = Zero64
            /\ Last(q.yielded).err = CtxErr

\* C7: no item yielded carries a rate-limit signal as its error.
C7_SignalNeverYielded ==
    \A s \in DOMAIN it :
        \A k \in 1..Len(it[s].yielded) : ~IsSignal(it[s].yielded[k].err)

\* C7 witness: a rate-limit wait was interrupted by cancellation and the
\* session yielded its final item
C7_Witness ==
    \E s \in DOMAIN it :
        LET q == it[s]
        IN  /\ q.pc = "done"
            /\ IsSignal(q.res.err)
            /\ q.waitCancel # -1
            /\ q.yielded # <<>>
            /\ Last(q.yielded).req = Len(q.requests)

\* the outcome of the last answered request has been handled: the page was
\* yielded and accepted, or the timer of the rate-limit wait has fired
Handled(q) ==
    \/ q.outcomes = <<>>
    \/ /\ IsPage(Last(q.outcomes))
       /\ q.yielded # <<>>
       /\ Last(q.yielded).req = Len(q.outcomes)
       /\ Last(q.yielded).err = NilErr
       /\ ~q.stopped
    \/ /\ IsSignal(Last(q.outcomes).err)
       /\ Leq64(Last(q.outcomes).err.RetryAfter, MulSecond64(Nat64(q.elapsed)))

\* C8: a session has at most one request in flight, every request but the
\* one in flight has been answered, and while a request is in flight the
\* outcome of the one before it has been handled.
C8_OneRequestInFlight ==
    \A s \in DOMAIN it :
        LET q == it[s]
        IN  /\ q.inflight \in {0, 1}
            /\ Len(q.requests) = Len(q.outcomes) + q.inflight
            /\ q.inflight = 1 => Handled(q)

\* C8 witness: the third request of a session is in flight, after a page
\* and a rate-limit wait
C8_Witness ==
    \E s \in DOMAIN it :
        LET q == it[s]
        IN  /\ q.inflight = 1
            /\ Len(q.requests) = 3
            /\ IsPage(q.outcomes[1])
            /\ IsSignal(q.outcomes[2].err)

\* the cursor request i has to carry: the next-cursor of the latest page
\* returned before it, or the caller's cursor when there is none
ExpectedCursor(q, i) ==
    LET pages == { j \in 1..(i - 1) : j <= Len(q.outcomes) /\ IsPage(q.outcomes[j]) }
    IN  IF pages = {} THEN q.caller.PageCursor
        ELSE q.outcomes[CHOOSE j \in pages : \A k \in pages : k <= j].NextPageCursor

\* C9: every request carries the caller's cursor, when no page was returned
\* before it, or else the next-cursor of the latest page returned before it;
\* and no request follows a page whose next-cursor is empty.
C9_CursorVerbatim ==
    \A s \in DOMAIN it :
        LET q == it[s]
        IN  /\ \A i \in 1..Len(q.requests) :
                   q.requests[i].PageCursor = ExpectedCursor(q, i)
            /\ \A j \in 1..Len(q.outcomes) :
                   (IsPage(q.outcomes[j]) /\ q.outcomes[j].NextPageCursor = NoCursor)
                       => Len(q.requests) = j

\* C9 witness: the caller's cursor, then the cursor of the first page,
\* carried by the request that was rate limited and by its retry
C9_Witness ==
    \E s \in DOMAIN it :
        LET q == it[s]
        IN  /\ Len(q.requests) = 3
            /\ q.requests[1].PageCursor = "a"
            /\ IsPage(q.outcomes[1])
            /\ q.outcomes[1].NextPageCursor = "b"
            /\ IsSignal(q.outcomes[2].err)
            /\ q.requests[3].PageCursor = "b"

\* a Retry-After value that is written as an integer: an optional sign and
\* one or more decimal digits
IntegerSyntax(h) ==
    LET ds == IF h # <<>> /\ Head(h) \in {"+", "-"} THEN Tail(h) ELSE h
    IN  /\ ds # <<>>
        /\ \A i \in 1..Len(ds) :
               ds[i] \in {"0", "1", "2", "3", "4", "5", "6", "7", "8", "9"}

\* the exact number of nanoseconds in the integer number of seconds h, as a
\* sign and a magnitude of any length
NanosOf(h) ==
    LET ds  == IF Head(h) \in {"+", "-"} THEN Tail(h) ELSE h
        ns  == Strip(MulSmall(MulSmall(MulSmall(DigitsMag(ds, <<>>),
                                                1000, 0), 1000, 0), 1000, 0))
    IN  [neg |-> Head(h) = "-" /\ ns # <<>>, mag |-> ns]

\* the number an int64 stands for, as a sign and a magnitude
Value64(u) ==
    IF IsNeg64(u) THEN [neg |-> TRUE, mag |-> Strip(Neg64(u))]
    ELSE [neg |-> FALSE, mag |-> Strip(u)]

\* C10 (as claimed): every List call makes one HTTP request, and its outcome
\* is the one the response calls for: the page and next-cursor of a decodable
\* 200; a rate-limit signal of exactly s seconds for a 429 with the integer
\* Retry-After s; a malformed-header error with the raw value, and no
\* signal, for a 429 with any other Retry-After; an unexpected-status error
\* with the code for any other status; the decode error for a 200 that does
\* not decode.
C10_OneOutcomePerResponse ==
    \A s \in DOMAIN it :
        LET q == it[s]
        IN  /\ Len(q.requests) = Len(q.wire) + q.inflight
            /\ Len(q.outcomes) = Len(q.wire)
            /\ \A i \in 1..Len(q.wire) :
                 LET r == q.wire[i]
                     o == q.outcomes[i]
                 IN  r.tr = "ok" =>
                       /\ (r.status = 200 /\ r.body.json) =>
                             /\ o.err = NilErr
                             /\ o.NextPageCursor = r.body.next
                             /\ o.Page.Count = r.body.count
                             /\ Len(o.Page.Results) = Len(r.body.results)
                             /\ \A k \in 1..Len(r.body.results) :
                                    /\ o.Page.Results[k].ID = r.body.results[k].id
                                    /\ o.Page.Results[k].Title = r.body.results[k].title
                       /\ (r.status = 200 /\ ~r.body.json) =>
                             o.err.kind = "decode"
                       /\ (r.status = 429 /\ IntegerSyntax(r.retryAfter)) =>
                             /\ o.err.kind = "ratelimited"
                             /\ Value64(o.err.RetryAfter) = NanosOf(r.retryAfter)
                       /\ (r.status = 429 /\ ~IntegerSyntax(r.retryAfter)) =>
                             /\ o.err.kind = "retryafter"
                             /\ o.err.raw = r.retryAfter
                       /\ r.status \notin {200, 429} =>
                             /\ o.err.kind = "status"
                             /\ o.err.code = r.status

\* the requests and items of session q follow from its own caller's params,
\* its own responses and its own context alone
Alone(q) ==
    /\ \A i \in 1..Len(q.requests) :
           q.requests[i] = [q.caller EXCEPT !.PageCursor = ExpectedCursor(q, i)]
    /\ \A k \in 1..Len(q.yielded) :
           LET item == q.yielded[k]
               i    == item.req
           IN  /\ i \in 1..Len(q.outcomes)
               /\ \/ /\ IsPage(q.outcomes[i])
                     /\ item.err = NilErr
                     /\ item.page = q.outcomes[i].Page
                  \/ /\ ~IsPage(q.outcomes[i])
                     /\ ~IsSignal(q.outcomes[i].err)
                     /\ item.err = q.outcomes[i].err
                  \/ /\ IsSignal(q.outcomes[i].err)
                     /\ q.ctxErr # NilErr
                     /\ item.err = q.ctxErr

\* C11: with two sessions of one Client interleaved in any order, every
\* session's requests and items follow from its own params, responses and
\* context, as when it runs alone, and a step of one session leaves the
\* state of the other as it was.
C11_SessionsIndependent ==
    /\ [](\A s \in DOMAIN it : Alone(it[s]))
    /\ [][Cardinality({ s \in DOMAIN it : it'[s] # it[s] }) <= 1]_vars

\* C11 witness: both sessions have their second request in flight at the
\* same time, the first one for the next page, the second one as a retry
C11_Witness ==
    /\ DOMAIN it = TwoSessions
    /\ \A s \in TwoSessions :
           it[s].pc = "inflight" /\ Len(it[s].requests) = 2
    /\ IsPage(it[1].outcomes[1])
    /\ it[1].requests[2].PageCursor = "b"
    /\ IsSignal(it[2].outcomes[1].err)
    /\ it[2].requests[2].PageCursor = "a"

\* C12 (as claimed): every RoundTrip call that has gone to the underlying
\* transport carries the Authorization header "Token <token>", never ends
\* otherwise than by returning, and returns the response and the error the
\* underlying transport produced, with debug dumping on or off and also when
\* the transport produced an error and no response.
C12_RoundTripPassesThrough ==
    /\ rt.pc \in {"delegated", "dumpresp", "return", "returned", "panic"}
          => rt.auth = <<"Token", rt.t.token>>
    /\ rt.pc # "panic"
    /\ rt.pc = "returned" => rt.ret = rt.under

\* what the loop body prints for the page items among items, in order
RECURSIVE PrintedFor(_)
PrintedFor(items) ==
    IF items = <<>> THEN <<>>
    ELSE LET item == items[1]
         IN  (IF item.err = NilErr
              THEN [i \in 1..Len(item.page.Results) |->
                      <<"Article ", item.page.Results[i].ID, ":\n",
                        item.page.Results[i].Title, "\n\n">>]
              ELSE <<>>) \o PrintedFor(Tail(items))

\* C13: in a run of "readerctl list", when the iteration yields an error
\* item every document of every page yielded before it has been printed, in
\* order, by the time run returns the error; the process then exits with
\* code 1 and "error: <message>" as the last thing on standard error; and it
\* exits with code 0 only when the iteration is over and no item was an
\* error.
C13_CliPrintsThenFails ==
    LET q == it[1]
        failed == q.yielded # <<>> /\ Last(q.yielded).err # NilErr
    IN  /\ cli.pc \in {"returned", "exited"} /\ failed
              => /\ cli.stdout = PrintedFor(q.yielded)
                 /\ cli.ret = Last(q.yielded).err
        /\ cli.pc = "exited" /\ failed
              => /\ cli.exit = 1
                 /\ Last(cli.stderr) = <<"error: ", Last(q.yielded).err, "\n">>
        /\ cli.pc = "exited" /\ cli.exit = 0
              => /\ q.pc = "done"
                 /\ ErrItems(q) = {}
                 /\ cli.stdout = PrintedFor(q.yielded)
        /\ cli.exit = 1 => cli.stderr # <<>> /\ Last(cli.stderr)[1] = "error: "

\* C13 witness: two documents of a first page were printed, then the
\* iteration failed and the process exited with code 1
C13_Witness ==
    /\ cli.pc = "exited"
    /\ cli.exit = 1
    /\ Len(cli.stdout) >= 2
    /\ Len(it[1].yielded) >= 2
    /\ Last(it[1].yielded).err # NilErr

\* a <= b for two magnitudes of any length without leading zero bytes
LeqAny(a, b) ==
    \/ Len(a) < Len(b)
    \/ Len(a) = Len(b) /\ LeqMag(a, b)

\* the exact number of seconds written in the integer h, as a sign and a
\* magnitude of any length
SecondsOf(h) ==
    LET ds == IF Head(h) \in {"+", "-"} THEN Tail(h) ELSE h
        m  == Strip(DigitsMag(ds, <<>>))
    IN  [neg |-> Head(h) = "-" /\ m # <<>>, mag |-> m]

\* C14 (as claimed): when the iterator leaves the wait for a rate-limit
\* signal to retry and the context is not cancelled, at least the number of
\* seconds written in the Retry-After header of the answer have elapsed
\* since the wait began, whatever integer List accepted, also one whose
\* nanosecond count does not fit 64 bits.
C14_WaitsFullRetryAfter ==
    \A s \in DOMAIN it :
        LET q == it[s]
        IN  (/\ q.pc = "loop"
             /\ q.outcomes # <<>>
             /\ IsSignal(Last(q.outcomes).err)
             /\ q.ctxErr = NilErr)
            => LET secs == SecondsOf(Last(q.wire).retryAfter)
               IN  \/ secs.neg
                   \/ LeqAny(secs.mag, Strip(Nat64(q.elapsed)))

\* C15 (as claimed): the first request of every traversal of a returned
\* sequence value carries the cursor the caller supplied, also in a second
\* traversal of the same value.
C15_TraversalStartsAtCallerCursor ==
    \A s \in DOMAIN it :
        it[s].requests # <<>>
            => it[s].requests[1].PageCursor = it[s].caller.PageCursor

\* C16 (as claimed): once the context was cancelled while a page was with
\* the consumer, the session yields no further page and makes at most one
\* further request, which fails with the cancellation; it goes on to
\* termination without panicking, and when it has terminated, the consumer
\* had not stopped and the page had a non-empty next-cursor, its last item is
\* the error of that request, an error representing the cancellation.
C16_CancelWhileSuspendedAfterYield ==
    \A s \in DOMAIN it :
        LET q == it[s]
            n == q.yieldCancel
        IN  n # -1 =>
              /\ \A k \in 1..Len(q.yielded) :
                     q.yielded[k].err = NilErr => q.yielded[k].req <= n
              /\ Len(q.requests) <= n + 1
              /\ q.pc \in {"yielded", "loop", "inflight", "returned", "done"}
              /\ Len(q.outcomes) > n => q.outcomes[n + 1].err.cause = "ctx"
              /\ (/\ q.pc = "done"
                  /\ ~q.stopped
                  /\ q.outcomes[n].NextPageCursor # NoCursor)
                 => /\ Last(q.yielded).req = n + 1
                    /\ Last(q.yielded).err = q.outcomes[n + 1].err
                    /\ Last(q.yielded).err.cause = "ctx"

\* every request of the session so far was answered with a rate-limit
\* signal, and the context is not cancelled
OnlySignals(q) ==
    /\ q.ctxErr = NilErr
    /\ \A i \in 1..Len(q.outcomes) : IsSignal(q.outcomes[i].err)

\* C17: while every answer was a rate-limit signal and the context is not
\* cancelled, whatever the number of signals, the session has yielded
\* nothing, is not done, every request so far carried the caller's cursor,
\* the only step out of the wait is the retry, and the next request carries
\* the same cursor again; a session is done only after a page, an error that
\* is no signal, or a cancellation.
C17_NoRetryBudget ==
    /\ [](\A s \in DOMAIN it :
            LET q == it[s]
            IN  /\ OnlySignals(q) =>
                      /\ q.yielded = <<>>
                      /\ q.pc \in {"idle", "loop", "inflight", "returned", "select"}
                      /\ \A i \in 1..Len(q.requests) :
                             q.requests[i].PageCursor = q.caller.PageCursor
                /\ q.pc = "done" =>
                      \/ q.ctxErr # NilErr
                      \/ \E i \in 1..Len(q.outcomes) : ~IsSignal(q.outcomes[i].err))
    /\ [][\A s \in DOMAIN it :
            (OnlySignals(it[s]) /\ OnlySignals(it'[s])) =>
               /\ it[s].pc = "select" => it'[s].pc \in {"select", "loop"}
               /\ Len(it'[s].requests) > Len(it[s].requests) =>
                      Last(it'[s].requests).PageCursor = it[s].caller.PageCursor]_vars

\* C17 witness: two rate-limit signals in a row and no cancellation, and the
\* third request for the same cursor is in flight
C17_Witness ==
    \E s \in DOMAIN it :
        LET q == it[s]
        IN  /\ q.pc = "inflight"
            /\ Len(q.requests) = 3
            /\ Len(q.outcomes) = 2
            /\ OnlySignals(q)
            /\ q.requests[3] = q.requests[1]

\* time goes on while a session waits: weak fairness of Tick, with ENABLED
\* Tick(s) written out as the guard of Tick
ClockRuns ==
    \A s \in Sessions :
        []<>~(it[s].pc = "select" /\ it[s].elapsed < MaxTicks /\ ~it[s].fired)

\* C18: a session in the rate-limit wait leaves it: when time goes on, every
\* wait ends; a wait with the context cancelled ends even when no more time
\* passes; and the step out of the wait is the retry, taken with the delay
\* elapsed, or the final item with the cancellation error, taken with the
\* context cancelled.
C18_WaitEnds ==
    /\ ClockRuns =>
         \A s \in Sessions : (it[s].pc = "select") ~> (it[s].pc # "select")
    /\ \A s \in Sessions :
         (it[s].pc = "select" /\ it[s].ctxErr # NilErr) ~> (it[s].pc # "select")
    /\ [][\A s \in Sessions :
            (it[s].pc = "select" /\ it'[s].pc # "select") =>
               \/ /\ it'[s].pc = "loop"
                  /\ Leq64(it[s].delay, MulSecond64(Nat64(it[s].elapsed)))
                  /\ it'[s].yielded = it[s].yielded
               \/ /\ it'[s].pc = "done"
                  /\ it[s].ctxErr # NilErr
                  /\ Last(it'[s].yielded).err = CtxErr
                  /\ Len(it'[s].yielded) = Len(it[s].yielded) + 1]_vars

\* C18 witness: the context was cancelled during a wait of two seconds before
\* any of it had passed, and the session is done with the cancellation error
C18_Witness ==
    \E s \in DOMAIN it :
        LET q == it[s]
        IN  /\ q.pc = "done"
            /\ q.waitCancel # -1
            /\ q.elapsed = 0
            /\ ~Leq64(q.delay, MulSecond64(Nat64(q.elapsed)))
            /\ Last(q.yielded).err = CtxErr

\* C19: every request of a session, the first, the retries and the
\* next-page requests alike, carries the caller's ID, UpdatedAfter, Location,
\* Category and WithHTMLContent; the captured params differ from the
\* caller's value in the cursor at most; and the caller's value never
\* changes.
C19_OnlyCursorChanges ==
    /\ [](\A s \in DOMAIN it :
            LET q == it[s]
            IN  /\ \A i \in 1..Len(q.requests) :
                       /\ q.requests[i].ID = q.caller.ID
                       /\ q.requests[i].UpdatedAfter = q.caller.UpdatedAfter
                       /\ q.requests[i].Location = q.caller.Location
                       /\ q.requests[i].Category = q.caller.Category
                       /\ q.requests[i].WithHTMLContent = q.caller.WithHTMLContent
                /\ [q.params EXCEPT !.PageCursor = q.caller.PageCursor] = q.caller)
    /\ [][\A s \in DOMAIN it : it'[s].caller = it[s].caller]_vars

\* C19 witness: a first request, its retry after a rate-limit signal and a
\* next-page request with another cursor, all for a caller that filters by
\* location
C19_Witness ==
    \E s \in DOMAIN it :
        LET q == it[s]
        IN  /\ Len(q.requests) = 3
            /\ q.caller.Location = "later"
            /\ IsSignal(q.outcomes[1].err)
            /\ q.requests[2] = q.requests[1]
            /\ q.requests[3].PageCursor # q.requests[1].PageCursor
            /\ q.requests[3].Location = "later"
====
